---- MODULE Spec2Model ----
(***************************************************************************)
(* MillerRabinPrimeChecker of src/truncatable_primes.py: the Miller-Rabin  *)
(* primality test with a cumulative error budget.                          *)
(*                                                                         *)
(* Python integers are unbounded and the regime threshold 3215031751 does  *)
(* not fit a 32-bit integer, so an integer v is the pair <<hi, lo>> with   *)
(* v = hi * Base + lo and 0 <= lo < Base (hi < 0 for a negative v).        *)
(* Python floats are taken as exact rationals <<num, den>>, den > 0, in    *)
(* lowest terms.                                                           *)
(***************************************************************************)
EXTENDS Integers, Sequences, FiniteSets, Bags, TLC

\* ------------------------------------------------------------ integers

Base == 100000

Norm(hi, lo) == <<hi + (lo \div Base), lo % Base>>

FromInt(i) == Norm(0, i)

Zero == <<0, 0>>

One == <<0, 1>>

Two == <<0, 2>>

BAdd(a, b) == Norm(a[1] + b[1], a[2] + b[2])

BSub(a, b) == Norm(a[1] - b[1], a[2] - b[2])

BLess(a, b) == a[1] < b[1] \/ (a[1] = b[1] /\ a[2] < b[2])

BLeq(a, b) == a = b \/ BLess(a, b)

\* v * k for a small k >= 0
BScale(a, k) == Norm(a[1] * k, a[2] * k)

\* v % 2 == 0 (Base is even)
BEven(a) == a[2] % 2 = 0

\* v // 2
BHalf(a) == <<a[1] \div 2, ((a[1] % 2) * Base + a[2]) \div 2>>

\* v % 16 and v // 16 for v >= 0
BLow16(a) == ((a[1] % 16) * Base + a[2]) % 16

BDiv16(a) == <<a[1] \div 16, ((a[1] % 16) * Base + a[2]) \div 16>>

\* v % q for v >= 0 and a small q (1 <= q < 2^21), digit group by digit group
BModSmall(a, q) ==
  LET top == ((a[1] % q) * 1000 + (a[2] \div 100)) % q
  IN (top * 100 + (a[2] % 100)) % q

BCondSub(v, m) == IF BLess(v, m) THEN v ELSE BSub(v, m)

\* v % n for 0 <= v < 32 * n
BReduce32(v, n) ==
  BCondSub(BCondSub(BCondSub(BCondSub(BCondSub(v,
    BScale(n, 16)), BScale(n, 8)), BScale(n, 4)), BScale(n, 2)), n)

\* (a * b) % n for 0 <= a, b < n, four bits of b at a time:
\* a * (16 * q + t) = 16 * (a * q) + t * a
RECURSIVE MulMod(_, _, _)
MulMod(a, b, n) ==
  IF a = Zero \/ b = Zero
  THEN Zero
  ELSE LET h == MulMod(a, BDiv16(b), n)
       IN IF h = Zero
          THEN BReduce32(BScale(a, BLow16(b)), n)
          ELSE BReduce32(BAdd(BScale(h, 16), BScale(a, BLow16(b))), n)

Square(x, n) == MulMod(x, x, n)

\* (b ** t) % n for 0 <= t < 16
RECURSIVE PowSmall(_, _, _)
PowSmall(b, t, n) ==
  IF t = 0
  THEN One
  ELSE LET h == PowSmall(b, t \div 2, n)
       IN IF t % 2 = 0 THEN Square(h, n) ELSE MulMod(Square(h, n), b, n)

\* pow(b, e, n) for 0 <= b < n, e >= 0, n > 1, four bits of e at a time:
\* b ** (16 * q + t) = (b ** q) ** 16 * b ** t
RECURSIVE PowMod(_, _, _)
PowMod(b, e, n) ==
  IF e = Zero
  THEN One
  ELSE LET h == PowMod(b, BDiv16(e), n)
       IN IF h = Zero
          THEN Zero
          ELSE MulMod(Square(Square(Square(Square(h, n), n), n), n),
                      PowSmall(b, BLow16(e), n), n)

\* ------------------------------------------------------------ rationals

RECURSIVE GCD(_, _)
GCD(a, b) == IF b = 0 THEN a ELSE GCD(b, a % b)

Abs(i) == IF i < 0 THEN -i ELSE i

Rat(num, den) ==
  LET g == GCD(Abs(num), den)
  IN <<num \div g, den \div g>>

RatInt(i) == <<i, 1>>

\* a + b and a - b over the least common denominator
RatAdd(a, b) ==
  LET g == GCD(a[2], b[2])
  IN Rat(a[1] * (b[2] \div g) + b[1] * (a[2] \div g), (a[2] \div g) * b[2])

RatSub(a, b) == RatAdd(a, <<-b[1], b[2]>>)

\* a / i for an integer i > 0
RatDivInt(a, i) ==
  LET g == GCD(Abs(a[1]), i)
  IN IF a[1] = 0 THEN <<0, 1>> ELSE <<a[1] \div g, a[2] * (i \div g)>>

RatMulInt(a, i) ==
  LET g == GCD(a[2], i)
  IN <<a[1] * (i \div g), a[2] \div g>>

RatLeq(a, b) ==
  LET g == GCD(a[2], b[2])
  IN a[1] * (b[2] \div g) <= b[1] * (a[2] \div g)

RatLess(a, b) == RatLeq(a, b) /\ a # b

\* ------------------------------------------------- MillerRabinPrimeChecker

\* 3215031751
Threshold == <<32150, 31751>>

OppFloor == 100

Max(a, b) == IF a >= b THEN a ELSE b

\* n - 1 == 2**r * d: the pair <<d, r>>
RECURSIVE Halve(_, _)
Halve(d, r) == IF BEven(d) THEN Halve(BHalf(d), r + 1) ELSE <<d, r>>

Decompose(n) == Halve(BSub(n, One), 0)

\* for _ in range(r): if x == n - 1: return False; x = (x * x) % n
RECURSIVE SquareLoop(_, _, _)
SquareLoop(x, n, i) ==
  IF i = 0
  THEN TRUE
  ELSE IF x = BSub(n, One) THEN FALSE ELSE SquareLoop(MulMod(x, x, n), n, i - 1)

\* _IsDefinitelyComposite without the test x == 1
IsDefinitelyComposite_NoUnitTest(base, n, d, r) ==
  SquareLoop(PowMod(base, d, n), n, r)

IsDefinitelyComposite(base, n, d, r) ==
  LET x == PowMod(base, d, n)
  IN IF x = One THEN FALSE ELSE SquareLoop(x, n, r)

\* the fixed bases without 7
DeterministicBases_NoSeven(n) ==
  {x \in {FromInt(2), FromInt(3), FromInt(5)} : BLess(x, n)}

\* {x for x in {2, 3, 5, 7} if x < n}
DeterministicBases(n) ==
  {x \in {FromInt(2), FromInt(3), FromInt(5), FromInt(7)} : BLess(x, n)}

\* the allowance with * written for /
Allowance_Multiplied(max, sofar, count) ==
  RatMulInt(RatSub(max, sofar), Max(OppFloor, count))

\* the allowance with the operands of - exchanged
Allowance_Swapped(max, sofar, count) ==
  RatDivInt(RatSub(sofar, max), Max(OppFloor, count))

\* acceptable_error_probability_for_this_n
Allowance(max, sofar, count) ==
  RatDivInt(RatSub(max, sofar), Max(OppFloor, count))

\* int(math.ceil(-math.log(a, 4))) for a > 0: the least k with 4 ** -k <= a
RECURSIVE CeilLog4(_, _)
CeilLog4(num, den) == IF num >= den THEN 0 ELSE 1 + CeilLog4(4 * num, den)

RECURSIVE FloorLog4(_, _)
FloorLog4(num, den) == IF 4 * den <= num THEN 1 + FloorLog4(num, 4 * den) ELSE 0

WitnessCount(a) ==
  IF a[1] < a[2] THEN CeilLog4(a[1], a[2]) ELSE -FloorLog4(a[1], a[2])

\* Report adding the allowance twice
ReportError_Twice(sofar, a, is_prime) ==
  IF is_prime THEN RatAdd(RatAdd(sofar, a), a) ELSE sofar

\* Report with -= written for +=
ReportError_Subtracted(sofar, a, is_prime) ==
  IF is_prime THEN RatSub(sofar, a) ELSE sofar

\* Reporter.Report
ReportError(sofar, a, is_prime) == IF is_prime THEN RatAdd(sofar, a) ELSE sofar

\* Report counting every verdict, not only the verdict prime
ReportCount_EveryVerdict(count, is_prime) == count + 1

ReportCount(count, is_prime) == IF is_prime THEN count + 1 ELSE count

\* ------------------------------------------------------------ inputs

MaxSmallN == 40

MaxDivisor == 60000

MaxPrimeVerdicts == 2

MaxInFlight == 101

None == <<>>

\* the arguments of IsPrime: every integer from -2 to MaxSmallN, the least
\* strong pseudoprimes to the bases {2}, {2, 3}, {2, 3, 5} and {2, 3, 5, 7}
\* (2047, 1373653, 25326001, 3215031751), and the neighbours of the threshold
\* 3215031750, 3215031752, 3215031753 and 3215031767
SmallInputs == {FromInt(i) : i \in (-2)..MaxSmallN}

SpecialInputs ==
  { <<0, 2047>>, <<13, 73653>>, <<253, 26001>>, <<32150, 31750>>,
    <<32150, 31751>>, <<32150, 31752>>, <<32150, 31753>>, <<32150, 31767>> }

Inputs == SmallInputs \cup SpecialInputs

\* the values of max_cumulative_error_probability: 1, 25/64 (whose first
\* allowance is exactly 4 ** -4), 0 and -1
MaxErrChoices == { <<1, 1>>, <<25, 64>>, <<0, 1>>, <<-1, 1>> }

\* the outcomes of random.randint(1, n - 1) that are followed: 1, 2, 11, n - 1
RandomBases(n) == { One, Two, FromInt(11), BSub(n, One) }

\* the regime test with n <= 3215031751 written for n < 3215031751
Randomized_AboveThreshold(n) == BLess(Threshold, n)

Randomized(n) == ~BLess(n, Threshold)

\* the arguments that reach the witness loop, and the bases each may meet
Tested == {n \in Inputs : BLess(Two, n) /\ ~BEven(n)}

BasesOf(n) == IF Randomized(n) THEN RandomBases(n) ELSE DeterministicBases(n)

\* IsDefinitelyComposite(base, n, d, r) for every tested argument n and every
\* base it may meet, d and r being those of n - 1 == 2**r * d
Tests == UNION { {<<n, base>> : base \in BasesOf(n)} : n \in Tested }

CompositeTable ==
  [t \in Tests |->
    IsDefinitelyComposite(t[2], t[1], Decompose(t[1])[1], Decompose(t[1])[2])]

Composite(base, n) == CompositeTable[<<n, base>>]

AllBases == UNION {BasesOf(n) : n \in Tested}

\* ground truth by trial division, for n <= MaxDivisor * MaxDivisor
DivisorLimit(n) ==
  IF n[1] = 0 /\ n[2] - 1 < MaxDivisor THEN n[2] - 1 ELSE MaxDivisor

TrialDivision(n) ==
  /\ BLeq(Two, n)
  /\ \A q \in 2..DivisorLimit(n) : BModSmall(n, q) # 0

PrimeTable == [n \in Inputs |-> TrialDivision(n)]

Prime(n) == PrimeTable[n]

\* both tables are worked out once, before the first call
TablesBuilt ==
  /\ \A t \in Tests : CompositeTable[t] \in BOOLEAN
  /\ \A n \in Inputs : PrimeTable[n] \in BOOLEAN

\* ------------------------------------------------------------ state

VARIABLES
  max_cumulative_error,    \* self._max_cumulative_error
  cumulative_error_sofar,  \* self._cumulative_error_sofar
  error_opportunity_count, \* self._error_opportunity_count
  pc,          \* where the call of IsPrime stands
  n, d, r,     \* the argument of the call and n - 1 == 2**r * d
  regime,      \* "trivial", "deterministic" or "randomized"
  allowance,   \* acceptable_error_probability_for_this_n of the call
  k,           \* the number of random bases of the call
  result,      \* the local result
  reported,    \* Reporter._reported
  ret,         \* the value IsPrime returned
  tried,       \* the bases the loop has met so far
  rounds,      \* the rounds of the loop so far (the generator's position)
  proofs,      \* the rounds whose test answered True
  reports,     \* the arguments reporter was called with during the call
  entry_error, entry_count,  \* the budget fields when the call began
  cur_allowance, cur_k,      \* allowance and <<k>> of the latest randomized call
  prev_allowance, prev_k,    \* and of the randomized call before it
  assert_ok,   \* no Reporter was dropped with _reported false
  synchronized,\* concurrent callers hold one lock from allocation to report
  inflight     \* the concurrent calls that have allocated and not reported

oracle == <<max_cumulative_error, cumulative_error_sofar, error_opportunity_count>>

frame == <<pc, n, d, r, regime, allowance, k, result, reported, ret, tried, rounds>>

ghost ==
  <<proofs, reports, entry_error, entry_count, cur_allowance, cur_k,
    prev_allowance, prev_k, assert_ok>>

conc == <<synchronized, inflight>>

vars == <<oracle, frame, ghost, conc>>

\* MillerRabinPrimeChecker.__init__
Construct(max) ==
  /\ max_cumulative_error = max
  /\ cumulative_error_sofar = RatInt(0)
  /\ error_opportunity_count = 0

NoCall ==
  /\ pc = "idle"
  /\ n = None /\ d = None /\ r = None
  /\ regime = None /\ allowance = None /\ k = None
  /\ result = None /\ reported = FALSE /\ ret = None
  /\ tried = {} /\ rounds = 0 /\ proofs = 0 /\ reports = <<>>
  /\ entry_error = None /\ entry_count = None
  /\ cur_allowance = None /\ cur_k = None
  /\ prev_allowance = None /\ prev_k = None
  /\ assert_ok = TRUE

Init ==
  /\ \E max \in MaxErrChoices : Construct(max)
  /\ NoCall
  /\ synchronized = TRUE
  /\ inflight = EmptyBag
  /\ TablesBuilt

\* ------------------------------------------------------------ IsPrime

Ready == pc \in {"idle", "done", "raised"}

\* lines 19-24: the returns before the witness loop
Returned(value) ==
  /\ pc' = "done"
  /\ ret' = value
  /\ regime' = "trivial"
  /\ d' = None /\ r' = None /\ allowance' = None /\ k' = None
  /\ result' = None
  /\ UNCHANGED <<cur_allowance, cur_k, prev_allowance, prev_k>>

\* line 54: the fixed bases and the reporter lambda x: None
Deterministic(nn) ==
  /\ pc' = "loop"
  /\ regime' = "deterministic"
  /\ allowance' = None /\ k' = None
  /\ result' = TRUE /\ ret' = None
  /\ UNCHANGED <<cur_allowance, cur_k, prev_allowance, prev_k>>

\* lines 55-74: the allowance, k, the generator of k bases and the Reporter;
\* math.log raises ValueError for an allowance <= 0
RandomizedRegime(nn) ==
  LET a == Allowance(max_cumulative_error, cumulative_error_sofar,
                     error_opportunity_count)
      defined == RatLess(RatInt(0), a)
      kk == IF defined THEN WitnessCount(a) ELSE None
  IN /\ regime' = "randomized"
     /\ allowance' = a
     /\ k' = kk
     /\ prev_allowance' = cur_allowance /\ prev_k' = cur_k
     /\ cur_allowance' = a /\ cur_k' = IF defined THEN <<kk>> ELSE None
     /\ ret' = None
     /\ IF ~defined
        THEN pc' = "raised" /\ result' = None
        ELSE /\ pc' = IF kk <= 0 THEN "report" ELSE "loop"
             /\ result' = TRUE

IsPrimeCall(nn) ==
  /\ Ready
  /\ \/ ~Randomized(nn)
     \/ BEven(nn)
     \/ error_opportunity_count < MaxPrimeVerdicts
  /\ n' = nn
  /\ reported' = FALSE
  /\ tried' = {} /\ rounds' = 0 /\ proofs' = 0 /\ reports' = <<>>
  /\ entry_error' = cumulative_error_sofar
  /\ entry_count' = error_opportunity_count
  /\ IF nn = Two THEN Returned(TRUE)
     ELSE IF BLeq(nn, One) THEN Returned(FALSE)
     ELSE IF BEven(nn) THEN Returned(FALSE)
     ELSE /\ d' = Decompose(nn)[1]
          /\ r' = Decompose(nn)[2]
          /\ IF Randomized(nn) THEN RandomizedRegime(nn) ELSE Deterministic(nn)
  /\ UNCHANGED <<oracle, assert_ok, conc>>

\* the bases bases_gen can still yield
Remaining ==
  IF regime = "deterministic"
  THEN DeterministicBases(n) \ tried
  ELSE IF rounds < k THEN RandomBases(n) ELSE {}

Exhausted(base) ==
  IF regime = "deterministic"
  THEN Remaining \ {base} = {}
  ELSE rounds + 1 = k

\* a proof of compositeness returning at once, past the reporter
AfterTest_EarlyReturn(composite, exhausted) ==
  IF composite THEN "return" ELSE IF exhausted THEN "report" ELSE "loop"

\* lines 36-39: after a test, break on a proof, go round, or leave the loop
AfterTest(composite, exhausted) ==
  IF composite \/ exhausted THEN "report" ELSE "loop"

\* lines 35-38: one round of the loop over bases_gen
IsPrimeLoop(base) ==
  /\ pc = "loop"
  /\ base \in Remaining
  /\ LET composite == Composite(base, n)
     IN /\ tried' = tried \cup {base}
        /\ rounds' = rounds + 1
        /\ proofs' = IF composite THEN proofs + 1 ELSE proofs
        /\ result' = IF composite THEN FALSE ELSE result
        /\ pc' = AfterTest(composite, Exhausted(base))
  /\ UNCHANGED <<oracle, n, d, r, regime, allowance, k, reported, ret>>
  /\ UNCHANGED <<reports, entry_error, entry_count, cur_allowance, cur_k,
                 prev_allowance, prev_k, assert_ok, conc>>

\* line 39: reporter(result), Reporter.Report or lambda x: None
IsPrimeReport ==
  /\ pc = "report"
  /\ IF regime = "randomized"
     THEN /\ cumulative_error_sofar' =
               ReportError(cumulative_error_sofar, allowance, result)
          /\ error_opportunity_count' =
               ReportCount(error_opportunity_count, result)
          /\ reported' = TRUE
     ELSE UNCHANGED <<cumulative_error_sofar, error_opportunity_count, reported>>
  /\ reports' = Append(reports, result)
  /\ pc' = "return"
  /\ UNCHANGED <<max_cumulative_error, n, d, r, regime, allowance, k, result, ret>>
  /\ UNCHANGED <<tried, rounds, proofs, entry_error, entry_count,
                 cur_allowance, cur_k, prev_allowance, prev_k, assert_ok, conc>>

\* line 40: return result; the Reporter is dropped and __del__ asserts
IsPrimeReturn ==
  /\ pc = "return"
  /\ ret' = result
  /\ pc' = "done"
  /\ assert_ok' = (assert_ok /\ (regime = "randomized" => reported))
  /\ UNCHANGED <<oracle, n, d, r, regime, allowance, k, result, reported>>
  /\ UNCHANGED <<tried, rounds, proofs, reports, entry_error, entry_count,
                 cur_allowance, cur_k, prev_allowance, prev_k, conc>>

Next ==
  \/ \E nn \in Inputs : IsPrimeCall(nn)
  \/ \E base \in AllBases : IsPrimeLoop(base)
  \/ IsPrimeReport
  \/ IsPrimeReturn

Spec == Init /\ [][Next]_vars

\* ------------------------------------------------------------ concurrent calls
\* Calls of IsPrime on one oracle from several threads.  A call reads the
\* budget fields when it allocates (lines 55-59), runs its loop on locals
\* only, and writes them when it reports (lines 70-72); inflight holds the
\* calls between the two, each as its allowance and its result.  With
\* synchronized a caller holds one lock from allocation to report.  Without,
\* the calls followed are those that allocate before the first True verdict
\* is reported, at most MaxInFlight of them in flight at once.

ConcurrentBudgets == {max \in MaxErrChoices : RatLess(RatInt(0), max)}

\* a lock holder tests the first composite and the first prime of the
\* randomized regime; unsynchronized threads all test that prime
ConcurrentInputs ==
  IF synchronized THEN { <<32150, 31751>>, <<32150, 31767>> }
  ELSE { <<32150, 31767>> }

\* the values result can have after a loop over `left` random bases
RECURSIVE LoopResults(_, _)
LoopResults(nn, left) ==
  IF left <= 0
  THEN {TRUE}
  ELSE LET rest == LoopResults(nn, left - 1)
       IN UNION { IF Composite(base, nn) THEN {FALSE} ELSE rest :
                    base \in RandomBases(nn) }

InitConcurrent ==
  /\ \E max \in ConcurrentBudgets : Construct(max)
  /\ NoCall
  /\ synchronized \in BOOLEAN
  /\ inflight = EmptyBag
  /\ TablesBuilt

\* lines 18-38 of one thread: allocation and the loop
ConcurrentBegin(nn) ==
  /\ IF synchronized
     THEN inflight = EmptyBag /\ error_opportunity_count < MaxPrimeVerdicts
     ELSE BagCardinality(inflight) < MaxInFlight /\ error_opportunity_count = 0
  /\ LET a == Allowance(max_cumulative_error, cumulative_error_sofar,
                        error_opportunity_count)
     IN /\ RatLess(RatInt(0), a)
        /\ \E res \in LoopResults(nn, WitnessCount(a)) :
             inflight' = inflight (+) SetToBag({[allowance |-> a, result |-> res]})
  /\ UNCHANGED <<oracle, frame, ghost, synchronized>>

\* lines 39-40 of one thread: Reporter.Report and the return
ConcurrentReport(call) ==
  /\ BagIn(call, inflight)
  /\ cumulative_error_sofar' =
       ReportError(cumulative_error_sofar, call.allowance, call.result)
  /\ error_opportunity_count' =
       ReportCount(error_opportunity_count, call.result)
  /\ inflight' = inflight (-) SetToBag({call})
  /\ UNCHANGED <<max_cumulative_error, frame, ghost, synchronized>>

NextConcurrent ==
  \/ \E nn \in ConcurrentInputs : ConcurrentBegin(nn)
  \/ \E call \in BagToSet(inflight) : ConcurrentReport(call)

SpecConcurrent == InitConcurrent /\ [][NextConcurrent]_vars

\* ------------------------------------------------------------ claims

Positive(q) == RatLess(RatInt(0), q)

InCall == pc \in {"loop", "report", "return", "done"}

N3215031750 == <<32150, 31750>>

N3215031751 == <<32150, 31751>>

\* C1: below the threshold IsPrime answers as trial division does, whatever
\* the budget fields are and in whatever order the fixed bases are met.
C1_DeterministicMatchesTrialDivision ==
  (pc = "done" /\ BLeq(One, n) /\ BLess(n, Threshold))
    => (ret = Prime(n))

\* 25326001, a strong pseudoprime to the bases 2, 3 and 5, is answered False
\* by an oracle that has already spent some of its budget.
C1_Witness ==
  /\ pc = "done" /\ regime = "deterministic"
  /\ n = <<253, 26001>> /\ ret = FALSE
  /\ error_opportunity_count > 0

\* C2: with a positive budget the cumulative error never exceeds the budget.
C2_ErrorWithinBudget ==
  Positive(max_cumulative_error)
    => RatLeq(cumulative_error_sofar, max_cumulative_error)

C2_Witness ==
  /\ Positive(max_cumulative_error)
  /\ pc = "done"
  /\ error_opportunity_count >= 2
  /\ Positive(cumulative_error_sofar)

\* C3: for a prime n no test proves compositeness, result stays True and the
\* value returned is True, in either regime and for every base met.
C3_NoFalseNegative ==
  (InCall /\ Prime(n))
    => /\ proofs = 0
       /\ regime # "trivial" => result = TRUE
       /\ pc = "done" => ret = TRUE

\* the prime 3215031767 has passed all k >= 4 random bases
C3_Witness ==
  /\ pc = "done" /\ regime = "randomized"
  /\ n = <<32150, 31767>> /\ Prime(n)
  /\ rounds = k /\ k >= 4
  /\ ret = TRUE

\* C4: in the randomized regime reporter is called exactly once, with result,
\* after the loop and before the return, on the early exit and on the full
\* pass alike, and no Reporter is dropped unreported.
C4_ReportedExactlyOnce ==
  /\ assert_ok
  /\ (regime = "randomized" /\ pc \in {"loop", "report"})
       => (reports = <<>> /\ ~reported)
  /\ (regime = "randomized" /\ pc = "return")
       => (reports = <<result>> /\ reported)
  /\ (regime = "randomized" /\ pc = "done")
       => (reports = <<ret>> /\ reported /\ ret = result)

\* a randomized call left its loop early on a proof of compositeness
C4_Witness ==
  /\ pc = "done" /\ regime = "randomized"
  /\ ret = FALSE /\ proofs = 1 /\ rounds < k
  /\ reports = <<FALSE>>

\* C5: a step changes the budget fields only when it is the report of a
\* randomized call whose result is True, and never changes the budget itself.
C5_FrameOfBudget ==
  [][ (oracle' # oracle)
        => /\ pc = "report" /\ regime = "randomized" /\ result = TRUE
           /\ max_cumulative_error' = max_cumulative_error ]_vars

\* a randomized call has returned False after an earlier one returned True
C5_Witness ==
  /\ pc = "done" /\ regime = "randomized" /\ ret = FALSE
  /\ error_opportunity_count > 0
  /\ cumulative_error_sofar = entry_error
  /\ error_opportunity_count = entry_count

\* C6: a randomized call that answers True leaves the count one higher and
\* the cumulative error higher by (max - c) / max(100, m), c and m being the
\* fields when the call began; that amount is the allowance k was chosen from.
C6_CommitOfAllowance ==
  (regime = "randomized" /\ pc \in {"return", "done"} /\ result = TRUE)
    => /\ error_opportunity_count = entry_count + 1
       /\ RatMulInt(RatSub(cumulative_error_sofar, entry_error),
                    Max(100, entry_count))
            = RatSub(max_cumulative_error, entry_error)
       /\ RatSub(cumulative_error_sofar, entry_error) = allowance
       /\ k = WitnessCount(allowance)

C6_Witness ==
  /\ regime = "randomized" /\ pc = "done" /\ ret = TRUE
  /\ entry_count >= 1

\* C7: the allowance of a randomized call is at most that of the randomized
\* call before it, and its k is at least that call's k.
C7_MonotonicShrink ==
  (prev_allowance # None)
    => /\ RatLeq(cur_allowance, prev_allowance)
       /\ (cur_k # None /\ prev_k # None) => cur_k[1] >= prev_k[1]

\* the allowance fell below 4 ** -4 and k rose from 4 to 5
C7_Witness ==
  /\ prev_allowance # None
  /\ RatLess(cur_allowance, prev_allowance)
  /\ prev_k = <<4>> /\ cur_k = <<5>>

\* C8 as stated: no call of IsPrime ever raises.
C8_NeverRaises == pc # "raised"

\* C8, amended: on an oracle built with a positive budget no call raises, the
\* allowance of every randomized call is positive with k defined, and the
\* loop always has a base to meet and stops after at most k (or 4) rounds.
C8_TotalWithPositiveBudget ==
  Positive(max_cumulative_error)
    => /\ pc # "raised"
       /\ (regime = "randomized" /\ InCall)
            => (Positive(allowance) /\ k \in Int /\ rounds <= k)
       /\ (regime = "deterministic" /\ InCall) => rounds <= 4
       /\ pc = "loop" => Remaining # {}

C8_Witness ==
  /\ Positive(max_cumulative_error)
  /\ pc = "done" /\ regime = "randomized"
  /\ entry_count >= 1

\* C9 as stated: IsPrime(3215031750) and IsPrime(3215031751) return False
\* whatever bases are drawn.
C9_BoundaryAlwaysFalse ==
  (pc = "done" /\ n \in {N3215031750, N3215031751}) => ret = FALSE

\* C9, amended: 3215031751 is composite; IsPrime(3215031750) returns False,
\* and IsPrime(3215031751) returns False exactly when one of the bases drawn
\* proves it composite, which of the bases followed only 11 does: 1, 2 and
\* n - 1 do not.
C9_BoundaryFalseIffWitnessDrawn ==
  /\ ~Prime(N3215031751)
  /\ (pc = "done" /\ n = N3215031750) => ret = FALSE
  /\ (pc = "done" /\ n = N3215031751)
       => /\ regime = "randomized"
          /\ (ret = FALSE) <=> (FromInt(11) \in tried)
          /\ (ret = FALSE) <=> (proofs > 0)

C9_Witness ==
  /\ pc = "done" /\ n = N3215031751
  /\ ret = FALSE /\ FromInt(11) \in tried
  /\ One \in tried

\* C10: with every call's allocation, loop and report under one lock the
\* cumulative error stays within the budget; without the lock a state with
\* the cumulative error above the budget is reached (C10_Witness).
C10_LinearizedWithinBudget ==
  synchronized => RatLeq(cumulative_error_sofar, max_cumulative_error)

\* unsynchronized calls that all allocated max / 100 from the fresh budget
\* have together reported more than the budget
C10_Witness ==
  /\ ~synchronized
  /\ RatLess(max_cumulative_error, cumulative_error_sofar)

====
